---------------------------- MODULE Spec2Model ----------------------------
(***************************************************************************)
(* Model of the interactive data explorer of src/milestone_4.py: value     *)
(* coercion, the condition parser, the expression evaluator, the filter    *)
(* and sort engines, the pager and the command loop of main().             *)
(*                                                                         *)
(* Text is modelled as TLA+ strings handled character by character         *)
(* (SubSeq, Len, \o), so that splitting, trimming, lower-casing, number    *)
(* parsing and lexicographic comparison are computed as Python computes    *)
(* them.  A table (pandas DataFrame) is the sequence of its rows; a row is *)
(* a record with one cell per column.  The row labels (the pandas index)   *)
(* are not modelled: every frame the program builds keeps the labels of    *)
(* the rows it retains, the boolean masks are built on the very index of   *)
(* the frame they select from, and exports are written without the index.  *)
(***************************************************************************)
EXTENDS Integers, Sequences, FiniteSets, TLC

VARIABLES original, current, pager, line, out, running

vars == <<original, current, pager, line, out, running>>

---------------------------------------------------------------------------
(* Bounds of the model *)

\* largest number of rows of a loaded table
MaxRows == 3

\* largest number typed after pagesize / page
MaxN == 2

---------------------------------------------------------------------------
(* Characters and Python's str methods *)

\* the characters of the modelled input, in code point order
Alphabet == " \"',-.0123456789<=>ABCDEFGHIJKLMNOPQRSTUVWXYZabcdefghijklmnopqrstuvwxyz~"

Upper == "ABCDEFGHIJKLMNOPQRSTUVWXYZ"

LowerLetters == "abcdefghijklmnopqrstuvwxyz"

Digits == "0123456789"

At(s, i) == SubSeq(s, i, i)

RECURSIVE indexFrom(_, _, _)
indexFrom(s, c, i) ==
    IF i > Len(s) THEN 0
    ELSE IF SubSeq(s, i, i) = c THEN i
    ELSE indexFrom(s, c, i + 1)

\* position of character c in string s, 0 when absent
IndexIn(s, c) == indexFrom(s, c, 1)

\* code point order of a character
Ord(c) == IndexIn(Alphabet, c)

RECURSIVE findFrom(_, _, _)
findFrom(s, sub, i) ==
    IF i + Len(sub) - 1 > Len(s) THEN 0
    ELSE IF SubSeq(s, i, i + Len(sub) - 1) = sub THEN i
    ELSE findFrom(s, sub, i + 1)

\* first position at which sub occurs in s, 0 when it does not
find(s, sub) == findFrom(s, sub, 1)

\* sub in s
contains(s, sub) == findFrom(s, sub, 1) # 0

RECURSIVE lstrip(_)
lstrip(s) == IF Len(s) > 0 /\ SubSeq(s, 1, 1) = " " THEN lstrip(Tail(s)) ELSE s

RECURSIVE rstrip(_)
rstrip(s) ==
    IF Len(s) > 0 /\ SubSeq(s, Len(s), Len(s)) = " "
    THEN rstrip(SubSeq(s, 1, Len(s) - 1)) ELSE s

\* str.strip()
strip(s) == rstrip(lstrip(s))

lowerAt(c, i) == IF i = 0 THEN c ELSE SubSeq(LowerLetters, i, i)

lowerChar(c) == lowerAt(c, indexFrom(Upper, c, 1))

RECURSIVE lower(_)
\* str.lower()
lower(s) == IF s = "" THEN "" ELSE lowerChar(SubSeq(s, 1, 1)) \o lower(Tail(s))

RECURSIVE split(_, _)
splitAt(s, sep, i) ==
    IF i = 0 THEN <<s>>
    ELSE <<SubSeq(s, 1, i - 1)>> \o split(SubSeq(s, i + Len(sep), Len(s)), sep)

\* str.split(sep): every piece between separators, empty pieces included
split(s, sep) == splitAt(s, sep, findFrom(s, sep, 1))

split1At(s, sep, i) == <<SubSeq(s, 1, i - 1), SubSeq(s, i + Len(sep), Len(s))>>

\* str.split(sep, 1) of a string that contains sep
split1(s, sep) == split1At(s, sep, findFrom(s, sep, 1))

\* str.isdigit(): non-empty and every character a digit
isdigit(s) ==
    s # "" /\ \A i \in 1..Len(s) : indexFrom(Digits, SubSeq(s, i, i), 1) # 0

RECURSIVE digitsValue(_)
digitsValue(s) ==
    IF s = "" THEN 0
    ELSE 10 * digitsValue(SubSeq(s, 1, Len(s) - 1))
         + (indexFrom(Digits, SubSeq(s, Len(s), Len(s)), 1) - 1)

hasSign(s) == Len(s) > 0 /\ SubSeq(s, 1, 1) \in {"-", "+"}

isNegative(s) == Len(s) > 0 /\ SubSeq(s, 1, 1) = "-"

unsigned(s) == IF hasSign(s) THEN Tail(s) ELSE s

\* int(s) succeeds: optional sign, then digits
isInt(s) == isdigit(unsigned(s))

signed(neg, n) == IF neg THEN 0 - n ELSE n

intValue(s) == signed(isNegative(s), digitsValue(unsigned(s)))

RECURSIVE strLess(_, _)
\* a < b on Python strings: lexicographic by code point
strLess(a, b) ==
    IF b = "" THEN FALSE
    ELSE IF a = "" THEN TRUE
    ELSE IF SubSeq(a, 1, 1) = SubSeq(b, 1, 1) THEN strLess(Tail(a), Tail(b))
    ELSE Ord(SubSeq(a, 1, 1)) < Ord(SubSeq(b, 1, 1))

RECURSIVE natStr(_)
natStr(n) ==
    IF n < 10 THEN SubSeq(Digits, n + 1, n + 1)
    ELSE natStr(n \div 10) \o SubSeq(Digits, (n % 10) + 1, (n % 10) + 1)

\* str(n) of an integer
intStr(n) == IF n < 0 THEN "-" \o natStr(0 - n) ELSE natStr(n)

Max(a, b) == IF a >= b THEN a ELSE b

Min(a, b) == IF a <= b THEN a ELSE b

---------------------------------------------------------------------------
(* Scalars: the values to_val produces and the cells of a table.           *)
(* A float is the decimal n * 10^(-k); an int or a bool has k = 0.         *)

StrV(s) == [t |-> "str", s |-> s, n |-> 0, k |-> 0]

NoneV == [t |-> "none", s |-> "", n |-> 0, k |-> 0]

BoolV(b) == [t |-> "bool", s |-> "", n |-> IF b THEN 1 ELSE 0, k |-> 0]

IntV(n) == [t |-> "int", s |-> "", n |-> n, k |-> 0]

FloatV(n, k) == [t |-> "float", s |-> "", n |-> n, k |-> k]

\* a missing cell (NaN)
NaN == [t |-> "nan", s |-> "", n |-> 0, k |-> 0]

\* isinstance(val, (int, float)); bool is a subclass of int
isNumber(v) == v.t \in {"int", "float", "bool"}

RECURSIVE pow10(_)
pow10(k) == IF k <= 0 THEN 1 ELSE 10 * pow10(k - 1)

scaled(a, K) == a.n * pow10(K - a.k)

sign(x, y) == IF x < y THEN -1 ELSE IF x = y THEN 0 ELSE 1

\* -1, 0 or 1 as number a is below, equal to or above number b
numCmp(a, b) == sign(scaled(a, Max(a.k, b.k)), scaled(b, Max(a.k, b.k)))

\* the text of a float: integer part ip, fraction fp, exponent x
floatSplitD(m, x, d) ==
    [ip |-> IF d = 0 THEN m ELSE SubSeq(m, 1, d - 1),
     fp |-> IF d = 0 THEN "" ELSE SubSeq(m, d + 1, Len(m)),
     x  |-> x]

floatSplitM(m, x) == floatSplitD(m, x, findFrom(m, ".", 1))

floatSplitE(u, e) ==
    floatSplitM(IF e = 0 THEN u ELSE SubSeq(u, 1, e - 1),
                IF e = 0 THEN "0" ELSE SubSeq(u, e + 1, Len(u)))

floatParts(s) == floatSplitE(unsigned(s), findFrom(lower(unsigned(s)), "e", 1))

isFloatParts(p) ==
    /\ p.ip \o p.fp # ""
    /\ (p.ip = "" \/ isdigit(p.ip))
    /\ (p.fp = "" \/ isdigit(p.fp))
    /\ isInt(p.x)

\* float(s) succeeds: [sign] digits "." digits, one side may be empty,
\* optionally followed by an exponent e[sign]digits
isFloat(s) == isFloatParts(floatParts(s))

floatOfParts(neg, p) ==
    FloatV(signed(neg, digitsValue(p.ip \o p.fp)), Len(p.fp) - intValue(p.x))

floatValue(s) == floatOfParts(isNegative(s), floatParts(s))

RECURSIVE stripZeros(_)
stripZeros(s) ==
    IF Len(s) > 1 /\ SubSeq(s, Len(s), Len(s)) = "0"
    THEN stripZeros(SubSeq(s, 1, Len(s) - 1)) ELSE s

RECURSIVE zeros(_)
zeros(k) == IF k <= 0 THEN "" ELSE "0" \o zeros(k - 1)

\* the digits ds with the point kk places from the right
pointed(ds, kk) ==
    SubSeq(ds, 1, Len(ds) - kk) \o "."
    \o (IF kk = 0 THEN "0" ELSE stripZeros(SubSeq(ds, Len(ds) - kk + 1, Len(ds))))

floatDigits(a, k) ==
    IF k <= 0 THEN pointed(a \o zeros(0 - k), 0)
    ELSE pointed(zeros(k + 1 - Len(a)) \o a, k)

\* str(x) of a float whose repr is positional (1e-4 <= |x| < 1e16)
floatStr(v) ==
    (IF v.n < 0 THEN "-" ELSE "") \o floatDigits(natStr(Max(v.n, 0 - v.n)), v.k)

\* str(val)
pyStr(v) ==
    CASE v.t = "str"   -> v.s
      [] v.t = "none"  -> "None"
      [] v.t = "bool"  -> IF v.n = 1 THEN "True" ELSE "False"
      [] v.t = "int"   -> intStr(v.n)
      [] v.t = "float" -> floatStr(v)
      [] v.t = "nan"   -> "nan"

---------------------------------------------------------------------------
(* Value coercion and the condition parser *)

\* the operators with the one-character ones first
OPS_short_first == <<">", "<", "~", "==", "!=", ">=", "<=">>

OPS == <<"==", "!=", ">=", "<=", ">", "<", "~">>

isQuoted(s) ==
    /\ Len(s) >= 2
    /\ SubSeq(s, 1, 1) = SubSeq(s, Len(s), Len(s))
    /\ SubSeq(s, 1, 1) \in {"'", "\""}

\* try: float(s) if "." in s else int(s); except: s
numberOrText(s) ==
    IF contains(s, ".")
    THEN (IF isFloat(s) THEN floatValue(s) ELSE StrV(s))
    ELSE (IF isInt(s) THEN IntV(intValue(s)) ELSE StrV(s))

unquoted(s, low) ==
    IF low \in {"none", "null"} THEN NoneV
    ELSE IF low \in {"true", "false"} THEN BoolV(low = "true")
    ELSE numberOrText(s)

\* the coercion without the rule for quotes
to_val_unquoted(s) == unquoted(s, lower(s))

to_val_stripped(s) ==
    IF isQuoted(s) THEN StrV(SubSeq(s, 2, Len(s) - 1)) ELSE unquoted(s, lower(s))

to_val(s) == to_val_stripped(strip(s))

\* result of a call that may raise: ok, or the exception's message
Ok(v) == [ok |-> TRUE, v |-> v, err |-> ""]

Raise(msg) == [ok |-> FALSE, v |-> <<>>, err |-> msg]

RECURSIVE firstOp(_, _)
\* for op in OPS: if op in tok -- the position in OPS of the first hit, or 0
firstOp(tok, i) ==
    IF i > Len(OPS) THEN 0
    ELSE IF contains(tok, OPS[i]) THEN i
    ELSE firstOp(tok, i + 1)

\* the sides checked for a missing column only
parse_sides_lenient(op, L, R) ==
    IF L = "" THEN Raise("Missing column")
    ELSE Ok([col |-> L, op |-> op, val |-> to_val(R)])

parse_sides(op, L, R) ==
    IF L = "" THEN Raise("Missing column")
    ELSE IF op # "~" /\ R = "" THEN Raise("Missing value")
    ELSE Ok([col |-> L, op |-> op, val |-> to_val(R)])

parse_split(op, LR) == parse_sides(op, strip(LR[1]), strip(LR[2]))

parse_at(tok, i) ==
    IF i = 0 THEN Raise("Bad condition") ELSE parse_split(OPS[i], split1(tok, OPS[i]))

parse_cond(tok) == parse_at(tok, firstOp(tok, 1))

---------------------------------------------------------------------------
(* Tables.  The loaded file has an integer column Age without missing      *)
(* values (dtype int64) and a text column Name that may have missing       *)
(* values (dtype object, the missing cells NaN).                           *)

columns == <<"Age", "Name">>

is_numeric_dtype(col) == col = "Age"

Row(age, name) == [Age |-> IntV(age), Name |-> name]

Names == <<StrV("bob"), NaN, StrV("Ali"), StrV("al")>>

\* the k-th row of the file: two ages, so that rows share a sort key
FileRow(k) ==
    Row(IF k % 2 = 1 THEN 30 ELSE 20, Names[((k - 1) % Len(Names)) + 1])

\* the tables a session is started on: the first n rows of the file, in
\* the order of the file or in the opposite order
Tables ==
    {[k \in 1..n |-> FileRow(k)] : n \in 0..MaxRows}
    \cup {[k \in 1..n |-> FileRow(n + 1 - k)] : n \in 0..MaxRows}

\* cmap(df): lower-cased column name -> column name (the last one wins)
cmap ==
    [k \in {lower(columns[i]) : i \in 1..Len(columns)} |->
        columns[CHOOSE i \in 1..Len(columns) :
                    /\ lower(columns[i]) = k
                    /\ \A j \in 1..Len(columns) : lower(columns[j]) = k => j <= i]]

---------------------------------------------------------------------------
(* The expression evaluator: mask_for, one mask entry per row *)

\* Series.astype(str) of one cell
astypeStr(c) ==
    IF c.t = "int" THEN intStr(c.n) ELSE IF c.t = "str" THEN c.s ELSE "nan"

\* pd.to_numeric(errors="coerce") of one cell of an object column
to_numeric(c) ==
    IF c.t = "str"
    THEN (IF isInt(c.s) THEN IntV(intValue(c.s))
          ELSE IF isFloat(c.s) THEN floatValue(c.s) ELSE NaN)
    ELSE c

\* re.search(pat, text): every character of pat is literal except ".",
\* which stands for any character
regexSearch(text, pat) ==
    \E i \in 1..(Len(text) - Len(pat) + 1) :
        \A j \in 1..Len(pat) :
            \/ SubSeq(pat, j, j) = "."
            \/ SubSeq(pat, j, j) = SubSeq(text, i + j - 1, i + j - 1)

\* Series.str.contains(pat, case=False, na=False) on one string
str_contains(text, pat) == regexSearch(lower(text), lower(pat))

opHolds(op, d) ==
    CASE op = "==" -> d = 0
      [] op = "!=" -> d # 0
      [] op = ">"  -> d > 0
      [] op = ">=" -> d >= 0
      [] op = "<"  -> d < 0
      [] op = "<=" -> d <= 0

\* left <op> right for one cell of a numeric series; NaN compares unequal
numCompare(c, op, val) ==
    IF c.t = "nan" THEN op = "!=" ELSE opHolds(op, numCmp(c, val))

strCmp(a, b) == IF a = b THEN 0 ELSE IF strLess(a, b) THEN -1 ELSE 1

\* left <op> right for one cell of a series of strings
strCompare(a, op, b) == opHolds(op, strCmp(a, b))

\* the mask entry of one cell of column col
maskCell(c, col, op, val) ==
    IF op = "~" THEN str_contains(astypeStr(c), pyStr(val))
    ELSE IF isNumber(val)
         THEN numCompare(IF is_numeric_dtype(col) THEN c ELSE to_numeric(c), op, val)
         ELSE strCompare(astypeStr(c), op, pyStr(val))

mask_for(df, col, op, val) ==
    [r \in 1..Len(df) |-> maskCell(df[r][col], col, op, val)]

---------------------------------------------------------------------------
(* The filter engine *)

stripped(parts) == [i \in 1..Len(parts) |-> strip(parts[i])]

nonEmpty(t) == t # ""

\* [t.strip() for t in expr.split(",") if t.strip()]
tokensOf(expr) == SelectSeq(stripped(split(expr, ",")), nonEmpty)

\* the masks combined with or instead of and
maskOr(mask, m) == [r \in 1..Len(mask) |-> mask[r] \/ m[r]]

\* mask &= m
maskAnd(mask, m) == [r \in 1..Len(mask) |-> mask[r] /\ m[r]]

RECURSIVE filterLoop(_, _, _)
filterCond(df, rest, mask, c, key) ==
    IF key \notin DOMAIN cmap THEN Raise("Unknown column")
    ELSE filterLoop(df, rest, maskAnd(mask, mask_for(df, cmap[key], c.op, c.val)))

\* the column looked up by the name as it was typed
filterToken_exact(df, rest, mask, res) ==
    IF ~res.ok THEN res ELSE filterCond(df, rest, mask, res.v, res.v.col)

filterToken(df, rest, mask, res) ==
    IF ~res.ok THEN res ELSE filterCond(df, rest, mask, res.v, lower(res.v.col))

\* the loop over the tokens: the first failing token raises
filterLoop(df, toks, mask) ==
    IF toks = <<>> THEN Ok(mask)
    ELSE filterToken(df, Tail(toks), mask, parse_cond(Head(toks)))

RECURSIVE selectFrom(_, _, _)
selectFrom(df, mask, r) ==
    IF r > Len(df) THEN <<>>
    ELSE (IF mask[r] THEN <<df[r]>> ELSE <<>>) \o selectFrom(df, mask, r + 1)

\* the selected rows in reverse order
selectRows_reversed(df, mask) ==
    [i \in 1..Len(selectFrom(df, mask, 1)) |->
        selectFrom(df, mask, 1)[Len(selectFrom(df, mask, 1)) + 1 - i]]

\* df[mask]
selectRows(df, mask) == selectFrom(df, mask, 1)

filtered(df, res) == IF res.ok THEN Ok(selectRows(df, res.v)) ELSE res

run_filter(df, expr) ==
    filtered(df, filterLoop(df, tokensOf(expr), [r \in 1..Len(df) |-> TRUE]))

---------------------------------------------------------------------------
(* The sort engine *)

Reverse(q) == [i \in 1..Len(q) |-> q[Len(q) + 1 - i]]

\* a < b on the values of one column (numbers, or strings)
keyLess(a, b) == IF a.t = "str" THEN strLess(a.s, b.s) ELSE numCmp(a, b) < 0

RECURSIVE insertPos(_, _, _, _)
\* the first place of sorted whose key is above the key of x
insertPos(items, sorted, x, p) ==
    IF p > Len(sorted) THEN p
    ELSE IF keyLess(items[x], items[sorted[p]]) THEN p
    ELSE insertPos(items, sorted, x, p + 1)

insertAt(sorted, x, pos) ==
    SubSeq(sorted, 1, pos - 1) \o <<x>> \o SubSeq(sorted, pos, Len(sorted))

RECURSIVE argsortFrom(_, _, _, _)
argsortFrom(items, idx, i, sorted) ==
    IF i > Len(idx) THEN sorted
    ELSE argsortFrom(items, idx, i + 1,
                     insertAt(sorted, idx[i], insertPos(items, sorted, idx[i], 1)))

\* items[idx].argsort(kind="mergesort"): the positions idx in ascending
\* order of their keys, positions of equal keys in the order they have in idx
argsortStable(items, idx) == argsortFrom(items, idx, 1, <<>>)

RECURSIVE positionsFrom(_, _, _)
\* the positions r.. of items whose key is missing (or is not), in order
positionsFrom(items, wantNaN, r) ==
    IF r > Len(items) THEN <<>>
    ELSE (IF (items[r].t = "nan") = wantNaN THEN <<r>> ELSE <<>>)
         \o positionsFrom(items, wantNaN, r + 1)

\* a descending sort as the reverse of the ascending one
sortedIndex_reversed(items, ascending, non_nan_idx) ==
    IF ascending THEN argsortStable(items, non_nan_idx)
    ELSE Reverse(argsortStable(items, non_nan_idx))

sortedIndex(items, ascending, non_nan_idx) ==
    IF ascending THEN argsortStable(items, non_nan_idx)
    ELSE Reverse(argsortStable(items, Reverse(non_nan_idx)))

\* the row order of sort_values(by=[col], ascending, kind="mergesort"):
\* the missing keys last; a descending sort reverses the rows, sorts them
\* in ascending order and reverses the outcome
nargsort(items, ascending) ==
    sortedIndex(items, ascending, positionsFrom(items, FALSE, 1))
    \o positionsFrom(items, TRUE, 1)

take(df, indexer) == [r \in 1..Len(indexer) |-> df[indexer[r]]]

sort_values(df, col, ascending) ==
    take(df, nargsort([r \in 1..Len(df) |-> df[r][col]], ascending))

sortBy(df, key, order) ==
    IF order \notin {"asc", "desc"} THEN Raise("Order must be asc/desc")
    ELSE IF key \notin DOMAIN cmap THEN Raise("Unknown column")
    ELSE Ok(sort_values(df, cmap[key], order = "asc"))

sortParts(df, parts) ==
    IF parts = <<>> THEN Raise("Usage: sort <col>[,asc|desc]")
    ELSE sortBy(df, lower(parts[1]), IF Len(parts) > 1 THEN lower(parts[2]) ELSE "asc")

run_sort(df, expr) == sortParts(df, tokensOf(expr))

---------------------------------------------------------------------------
(* The pager *)

\* Pager(df, size)
NewPager(df, size) == [df |-> df, size |-> Max(1, size), i |-> 1]

\* set_df without the reset of the page
set_df_keeps_page(p, df) == [p EXCEPT !.df = df]

set_df(p, df) == [p EXCEPT !.df = df, !.i = 1]

\* the number of pages without the - 1
pages_floor(p) == Max(1, Len(p.df) \div p.size + 1)

pages(p) == Max(1, (Len(p.df) - 1) \div p.size + 1)

\* df.iloc[a:b]
iloc(df, a, b) == SubSeq(df, Min(a, Len(df)) + 1, Min(b, Len(df)))

view(p) == iloc(p.df, (p.i - 1) * p.size, (p.i - 1) * p.size + p.size)

---------------------------------------------------------------------------
(* The command loop of main().  line is the last line read (stripped),    *)
(* out the text printed while it was processed.  The files written by     *)
(* export and export_page are outside the model.                          *)

PageArgs == {intStr(n) : n \in 0..MaxN}

\* the lines typed at the prompt
Lines ==
    {"help", "show", "show 2", "show x", "cols", "dtypes",
     "filter", "filter Age>=30", "filter age>25 , Name~AL", "filter Name~b",
     "filter Age>25 , Name~AL", "filter AGE>25 , name~AL",
     "filter Name!=5", "filter Name~nan", "filter Name~a.i", "page 5",
     "filter Name==Ali", "filter Age!=30",
     "filter Age>abc", "filter Age<abc", "filter Age!=abc",
     "filter ,", "filter , ,",
     "filter Age", "filter >=30", "filter Age>=", "filter Nope==1",
     "filter Age>=30,Nope==1",
     "sort", "sort Age", "sort age,desc", "sort Name", "sort Name, DESC",
     "sort Age,up", "sort Nope", "sort ,",
     "pagesize", "pagesize x", "page", "page -1",
     "next", "  PREV ", "export a.csv", "export", "export_page p.json",
     "export_page", "reset", "exit", "quit", "bogus 1", " "}
    \cup {"pagesize " \o a : a \in PageArgs}
    \cup {"page " \o a : a \in PageArgs}

splitLine(l, i) ==
    [line |-> l,
     cmd  |-> lower(strip(IF i = 0 THEN l ELSE SubSeq(l, 1, i - 1))),
     arg  |-> strip(IF i = 0 THEN "" ELSE SubSeq(l, i + 1, Len(l)))]

\* cmd, arg = (line.split(" ", 1) + [""])[:2], cmd lower-cased, both stripped
parseLine(l) == splitLine(l, findFrom(l, " ", 1))

\* line = input(">> ").strip(), with its command word and argument
Inputs == {parseLine(strip(l)) : l \in Lines}

InputsOf(cmds) == {c \in Inputs : c.line # "" /\ c.cmd \in cmds}

HelpInputs == InputsOf({"help"})

ShowInputs == InputsOf({"show"})

ColsInputs == InputsOf({"cols"})

DtypesInputs == InputsOf({"dtypes"})

FilterInputs == InputsOf({"filter"})

SortInputs == InputsOf({"sort"})

PageSizeInputs == InputsOf({"pagesize"})

PageInputs == InputsOf({"page"})

NextInputs == InputsOf({"next"})

PrevInputs == InputsOf({"prev"})

ExportInputs == InputsOf({"export"})

ExportPageInputs == InputsOf({"export_page"})

ResetInputs == InputsOf({"reset"})

ExitInputs == InputsOf({"exit", "quit"})

Commands ==
    {"help", "show", "cols", "dtypes", "filter", "sort", "pagesize", "page",
     "next", "prev", "export", "export_page", "reset", "exit", "quit"}

UnknownInputs == {c \in Inputs : c.line # "" /\ c.cmd \notin Commands}

BlankInputs == {c \in Inputs : c.line = ""}

\* print(f"... {e}") of the handler of the loop
Err(msg) == <<"ERR " \o msg>>

pageOf(p) == "Page " \o intStr(p.i) \o "/" \o intStr(pages(p))

\* number of rows of df.head(n)
headLen(df, n) == IF n >= 0 THEN Min(n, Len(df)) ELSE Max(Len(df) + n, 0)

rowsShown(n) == "<" \o intStr(n) \o " rows>"

Init ==
    /\ original \in Tables
    /\ current = original
    /\ pager = NewPager(original, 5)
    /\ line = ""
    /\ out = <<"Loaded. Type 'help'.">>
    /\ running = TRUE

\* input() raises EOFError or KeyboardInterrupt
EndOfInput ==
    /\ running
    /\ running' = FALSE
    /\ out' = <<"Bye">>
    /\ UNCHANGED <<original, current, pager, line>>

\* if not line: continue
EmptyLine ==
    /\ running
    /\ \E c \in BlankInputs : line' = c.line
    /\ out' = <<>>
    /\ UNCHANGED <<original, current, pager, running>>

Help ==
    /\ running
    /\ \E c \in HelpInputs : line' = c.line
    /\ out' = <<"HELP">>
    /\ UNCHANGED <<original, current, pager, running>>

showOut(arg) ==
    IF arg # ""
    THEN (IF isInt(arg)
          THEN <<rowsShown(headLen(current, intValue(arg))),
                 "Rows in view: " \o intStr(Len(current))>>
          ELSE Err("invalid literal for int()"))
    ELSE <<rowsShown(Len(view(pager))),
           pageOf(pager) \o " | Rows: " \o intStr(Len(current))>>

\* a show that goes back to the first page
Show_rewinds ==
    /\ running
    /\ \E c \in ShowInputs :
        /\ line' = c.line
        /\ out' = showOut(c.arg)
    /\ pager' = [pager EXCEPT !.i = 1]
    /\ UNCHANGED <<original, current, running>>

Show ==
    /\ running
    /\ \E c \in ShowInputs :
        /\ line' = c.line
        /\ out' = showOut(c.arg)
    /\ UNCHANGED <<original, current, pager, running>>

Cols ==
    /\ running
    /\ \E c \in ColsInputs : line' = c.line
    /\ out' = <<"Age, Name">>
    /\ UNCHANGED <<original, current, pager, running>>

Dtypes ==
    /\ running
    /\ \E c \in DtypesInputs : line' = c.line
    /\ out' = <<"Age int64, Name object">>
    /\ UNCHANGED <<original, current, pager, running>>

\* the table replaced without a word to the pager
Rebind_stale(df, p, msg) ==
    /\ current' = df
    /\ pager' = pager
    /\ out' = <<msg>>

\* current = ...; pager.set_df(current)
Rebind(df, p, msg) ==
    /\ current' = df
    /\ pager' = p
    /\ out' = <<msg>>

\* a filter whose failure is printed after the pager was rebound
FilterResult_rebinds_first(res) ==
    IF res.ok
    THEN Rebind(res.v, set_df(pager, res.v),
                "Filtered rows: " \o intStr(Len(res.v))
                \o " (" \o pageOf(set_df(pager, res.v)) \o ")")
    ELSE /\ out' = Err(res.err)
         /\ pager' = set_df(pager, current)
         /\ UNCHANGED current

FilterResult(res) ==
    IF res.ok
    THEN Rebind(res.v, set_df(pager, res.v),
                "Filtered rows: " \o intStr(Len(res.v))
                \o " (" \o pageOf(set_df(pager, res.v)) \o ")")
    ELSE /\ out' = Err(res.err)
         /\ UNCHANGED <<current, pager>>

Filter ==
    /\ running
    /\ \E c \in FilterInputs :
        /\ line' = c.line
        /\ IF c.arg = ""
           THEN /\ out' = <<"Usage: filter <cond>[,<cond>...]">>
                /\ UNCHANGED <<current, pager>>
           ELSE FilterResult(run_filter(current, c.arg))
    /\ UNCHANGED <<original, running>>

SortResult(res) ==
    IF res.ok
    THEN Rebind(res.v, set_df(pager, res.v), "Sorted.")
    ELSE /\ out' = Err(res.err)
         /\ UNCHANGED <<current, pager>>

\* a sort whose failure is not caught and ends the loop
Sort_fatal ==
    /\ running
    /\ \E c \in SortInputs :
        /\ line' = c.line
        /\ IF c.arg = ""
           THEN /\ out' = <<"Usage: sort <col>[,asc|desc]">>
                /\ UNCHANGED <<current, pager, running>>
           ELSE /\ SortResult(run_sort(current, c.arg))
                /\ running' = run_sort(current, c.arg).ok
    /\ UNCHANGED original

Sort ==
    /\ running
    /\ \E c \in SortInputs :
        /\ line' = c.line
        /\ IF c.arg = ""
           THEN /\ out' = <<"Usage: sort <col>[,asc|desc]">>
                /\ UNCHANGED <<current, pager>>
           ELSE SortResult(run_sort(current, c.arg))
    /\ UNCHANGED <<original, running>>

\* pagesize without the reset of the page
SetSize_keeps_page(n) ==
    /\ pager' = [pager EXCEPT !.size = Max(1, n)]
    /\ out' = <<"Page size: " \o intStr(Max(1, n))>>

SetSize(n) ==
    /\ pager' = [pager EXCEPT !.size = Max(1, n), !.i = 1]
    /\ out' = <<"Page size: " \o intStr(Max(1, n))>>

PageSize ==
    /\ running
    /\ \E c \in PageSizeInputs :
        /\ line' = c.line
        /\ IF ~isdigit(c.arg)
           THEN /\ out' = <<"Usage: pagesize N">>
                /\ UNCHANGED pager
           ELSE SetSize(intValue(c.arg))
    /\ UNCHANGED <<original, current, running>>

\* a move that always ends on the first page
Goto_first(p) ==
    /\ pager' = [p EXCEPT !.i = 1]
    /\ out' = <<pageOf([p EXCEPT !.i = 1])>>

Goto(p) ==
    /\ pager' = p
    /\ out' = <<pageOf(p)>>

Page ==
    /\ running
    /\ \E c \in PageInputs :
        /\ line' = c.line
        /\ IF ~isdigit(c.arg)
           THEN /\ out' = <<"Usage: page N">>
                /\ UNCHANGED pager
           ELSE Goto([pager EXCEPT !.i = Max(1, Min(intValue(c.arg), pages(pager)))])
    /\ UNCHANGED <<original, current, running>>

\* next without the test for the last page
Forward_unguarded ==
    Goto([pager EXCEPT !.i = pager.i + 1])

Forward ==
    IF pager.i >= pages(pager)
    THEN /\ UNCHANGED pager
         /\ out' = <<"No more pages.", pageOf(pager)>>
    ELSE Goto([pager EXCEPT !.i = pager.i + 1])

NextPage ==
    /\ running
    /\ \E c \in NextInputs : line' = c.line
    /\ Forward
    /\ UNCHANGED <<original, current, running>>

Backward ==
    IF pager.i <= 1
    THEN /\ UNCHANGED pager
         /\ out' = <<"Already at first page.", pageOf(pager)>>
    ELSE Goto([pager EXCEPT !.i = pager.i - 1])

PrevPage ==
    /\ running
    /\ \E c \in PrevInputs : line' = c.line
    /\ Backward
    /\ UNCHANGED <<original, current, running>>

Export ==
    /\ running
    /\ \E c \in ExportInputs :
        /\ line' = c.line
        /\ out' = IF c.arg = "" THEN <<"Usage: export <file>">>
                  ELSE <<"Saved visible rows: " \o c.arg>>
    /\ UNCHANGED <<original, current, pager, running>>

ExportPage ==
    /\ running
    /\ \E c \in ExportPageInputs :
        /\ line' = c.line
        /\ out' = IF c.arg = "" THEN <<"Usage: export_page <file>">>
                  ELSE <<"Saved current page: " \o c.arg>>
    /\ UNCHANGED <<original, current, pager, running>>

\* reset without the reset of the page size
Restore_keeps_size ==
    Rebind(original, set_df(pager, original),
           "Reset to original data and default pagesize (5).")

Restore ==
    Rebind(original, [set_df(pager, original) EXCEPT !.size = 5, !.i = 1],
           "Reset to original data and default pagesize (5).")

Reset ==
    /\ running
    /\ \E c \in ResetInputs : line' = c.line
    /\ Restore
    /\ UNCHANGED <<original, running>>

Exit ==
    /\ running
    /\ \E c \in ExitInputs : line' = c.line
    /\ out' = <<"Bye">>
    /\ running' = FALSE
    /\ UNCHANGED <<original, current, pager>>

Unknown ==
    /\ running
    /\ \E c \in UnknownInputs : line' = c.line
    /\ out' = <<"Unknown command. Type 'help'.">>
    /\ UNCHANGED <<original, current, pager, running>>

Next ==
    \/ EndOfInput
    \/ EmptyLine
    \/ Help
    \/ Show
    \/ Cols
    \/ Dtypes
    \/ Filter
    \/ Sort
    \/ PageSize
    \/ Page
    \/ NextPage
    \/ PrevPage
    \/ Export
    \/ ExportPage
    \/ Reset
    \/ Exit
    \/ Unknown

Spec == Init /\ [][Next]_vars

---------------------------------------------------------------------------
(* Properties *)

---------------------------------------------------------------------------
(* The condition parser and the value coercion taken alone: a step gives   *)
(* one of them a text, once, and keeps what it returns.  line is the text,  *)
(* out the call with its result.                                           *)

\* the sides of the conditions given to parse_cond
Lefts == {"Age", " Age ", "", " ", "a b"}

Rights == {"30", " 30 ", "", " ", "'x y'", "\"30\"", "abc", "3.5", "null", "True", "-7"}

CondTokens ==
    {l \o OPS[i] \o r : l \in Lefts, i \in 1..Len(OPS), r \in Rights}
        \cup {"Age", "", "a=b", "a-b", "Age>=30>5", "a<b>=c", "=>5", "~", ">",
              "a~~b", "Age=>30", "x<>1"}

\* the texts given to to_val, bare and wrapped in spaces and quotes
ValueCores ==
    {"", "null", "NULL", "None", "true", "False", "TRUE", "5", "-5", "+5",
     "007", "3.5", "-3.5", ".5", "5.", ".", "1.2.3", "1e5", "1.5e3", "2.5E-1",
     "abc", "a.b", "12a", "--5", "nan", "x y", "-", "-.5", "1.e"}

ValueTokens ==
    UNION {{c, " " \o c \o " ", "'" \o c \o "'", "\"" \o c \o "\"",
            " '" \o c \o "' ", "'" \o c \o "\"", "'" \o c} : c \in ValueCores}

Call(f, r) == [f |-> f, r |-> r]

InitParse ==
    /\ original = <<>>
    /\ current = <<>>
    /\ pager = NewPager(<<>>, 5)
    /\ line = ""
    /\ out = <<>>
    /\ running = TRUE

ParseCond ==
    /\ out = <<>>
    /\ \E tok \in CondTokens :
        /\ line' = tok
        /\ out' = <<Call("parse_cond", parse_cond(tok))>>
    /\ UNCHANGED <<original, current, pager, running>>

ToVal ==
    /\ out = <<>>
    /\ \E tok \in ValueTokens :
        /\ line' = tok
        /\ out' = <<Call("to_val", to_val(tok))>>
    /\ UNCHANGED <<original, current, pager, running>>

NextParse ==
    \/ ParseCond
    \/ ToVal

SpecParse == InitParse /\ [][NextParse]_vars

---------------------------------------------------------------------------
(* The filter and the sort engine applied in sequence to a loaded table,   *)
(* once.  original is the table, line the two expressions, current what    *)
(* the second call returns, out the calls made.                            *)

\* the tables of at most MaxRows rows of the file, in any order
LoadedTables ==
    UNION {[1..n -> {FileRow(k) : k \in 1..Len(Names)}] : n \in 0..MaxRows}

FilterExprs ==
    {"Age>=30", "age>25 , Name~AL", "Name~b", "Name!=5", "Age<abc", "Name>=al",
     ",", "Nope==1", "Age"}

SortExprs == {"Age", "age,desc", "Name", "Name, DESC", "Nope", "Age,up"}

Calls(f, a, b) == [f |-> f, a |-> a, b |-> b]

InitSeq ==
    /\ original \in LoadedTables
    /\ current = original
    /\ pager = NewPager(original, 5)
    /\ line = ""
    /\ out = <<>>
    /\ running = TRUE

\* the second call on the result of the first, when both return
sortAfter(res, S) == IF res.ok THEN run_sort(res.v, S) ELSE res

filterAfter(res, G) == IF res.ok THEN run_filter(res.v, G) ELSE res

\* current = run_sort(run_filter(original, F), S)
FilterSort ==
    /\ out = <<>>
    /\ \E F \in FilterExprs, S \in SortExprs :
        /\ sortAfter(run_filter(original, F), S).ok
        /\ current' = sortAfter(run_filter(original, F), S).v
        /\ line' = "filter " \o F \o " ; sort " \o S
        /\ out' = <<Calls("filter;sort", F, S)>>
    /\ UNCHANGED <<original, pager, running>>

\* current = run_filter(run_filter(original, F), G)
FilterFilter ==
    /\ out = <<>>
    /\ \E F \in FilterExprs, G \in FilterExprs :
        /\ filterAfter(run_filter(original, F), G).ok
        /\ current' = filterAfter(run_filter(original, F), G).v
        /\ line' = "filter " \o F \o " ; filter " \o G
        /\ out' = <<Calls("filter;filter", F, G)>>
    /\ UNCHANGED <<original, pager, running>>

NextSeq ==
    \/ FilterSort
    \/ FilterFilter

SpecSeq == InitSeq /\ [][NextSeq]_vars

linesOf(inputs) == {c.line : c \in inputs}

\* a step that processed one of the given inputs and returned to the prompt
Did(inputs) == line' \in linesOf(inputs) /\ running'

\* the handler of the loop printed an exception
IsErr(o) == Len(o) = 1 /\ Len(o[1]) >= 4 /\ SubSeq(o[1], 1, 4) = "ERR "

startsWith(s, pre) == SubSeq(s, 1, Len(pre)) = pre

\* C1: in every reachable state the page size is at least 1 and the current
\* page lies in 1..total_pages of the bound table
C1_PagerInRange ==
    /\ pager.size >= 1
    /\ 1 <= pager.i
    /\ pager.i <= pages(pager)

\* a filter that shrank the table to a single page was typed after the page
\* size had been set to 1
C1_Witness ==
    /\ running
    /\ line \in linesOf(FilterInputs)
    /\ startsWith(out[1], "Filtered rows: ")
    /\ Len(current) < Len(original)
    /\ pager.size = 1
    /\ pager.i = 1
    /\ pages(pager) = 1

\* C2: the loaded table is never changed, and a reset leaves the current
\* table equal to it, the page size 5 and the current page 1
C2_ResetRestores ==
    [][/\ original' = original
       /\ Did(ResetInputs) =>
            /\ current' = original
            /\ pager'.df = original
            /\ pager'.size = 5
            /\ pager'.i = 1]_vars

\* a reset has acted on a loaded table of full length
C2_Witness ==
    /\ running
    /\ line \in linesOf(ResetInputs)
    /\ current = original
    /\ Len(original) = MaxRows
    /\ pager = NewPager(original, 5)

\* C3: a filter or sort command that fails leaves the tables, the bound
\* table, the page size and the current page as they were
C3_AllOrNothing ==
    [][(Did(FilterInputs \cup SortInputs) /\ IsErr(out')) =>
            UNCHANGED <<original, current, pager>>]_vars

\* the second condition of a filter failed on a later page of a table that
\* the first condition would have shrunk
C3_Witness ==
    /\ running
    /\ line = "filter Age>=30,Nope==1"
    /\ out = Err("Unknown column")
    /\ pager.i > 1
    /\ \E r \in 1..Len(current) : current[r].Age.n < 30

\* the argument of the input whose line is l
argOf(l) == (CHOOSE c \in Inputs : c.line = l).arg

\* one condition of a filter expression holds of a row, as the expression
\* evaluator decides it for the row's cell of the named column
condHolds(row, c) ==
    /\ c.ok
    /\ c.key \in DOMAIN cmap
    /\ maskCell(row[cmap[c.key]], cmap[c.key], c.v.op, c.v.val)

allHold(row, conds) == \A i \in 1..Len(conds) : condHolds(row, conds[i])

\* the rows of df, in their order, of which every one of the conditions holds
rowsWhere(df, conds) ==
    LET keep(row) == allHold(row, conds)
    IN  SelectSeq(df, keep)

\* a parsed condition with the lower-cased name of its column
keyed(c) ==
    [ok |-> c.ok, v |-> c.v, key |-> IF c.ok THEN lower(c.v.col) ELSE ""]

RECURSIVE parseAll(_)
parseAll(toks) ==
    IF toks = <<>> THEN <<>>
    ELSE <<keyed(parse_cond(Head(toks)))>> \o parseAll(Tail(toks))

\* the filter lines that have an expression, with its parsed conditions
FilterConds ==
    {[line |-> c.line, conds |-> parseAll(tokensOf(c.arg))] :
        c \in {f \in FilterInputs : f.arg # ""}}

\* C4: a filter that succeeds leaves exactly the rows of the table of which
\* every condition of the expression holds, in their order and unchanged;
\* so it never has more rows than before
C4_FilterConjunction ==
    [][\A f \in FilterConds :
        (line' = f.line /\ running' /\ ~IsErr(out')) =>
            /\ current' = rowsWhere(current, f.conds)
            /\ Len(current') <= Len(current)]_vars

\* of the two rows of age 30 of a three-row table only the one whose name
\* contains "al" is left by the filter age>25 , Name~AL
C4_Witness ==
    /\ running
    /\ line = "filter age>25 , Name~AL"
    /\ Len(original) = 3
    /\ current = <<Row(30, StrV("Ali"))>>
    /\ out = <<"Filtered rows: 1 (Page 1/1)">>

\* the column and the direction a sort expression names
sortCol(expr) == cmap[lower(tokensOf(expr)[1])]

sortAsc(expr) == Len(tokensOf(expr)) < 2 \/ lower(tokensOf(expr)[2]) = "asc"

\* b is a rearrangement of a ordered by column col in the given direction
\* (over the rows whose key is not missing) that keeps rows of equal keys
\* in the order they have in a
stableSorted(a, b, col, asc) ==
    /\ Len(b) = Len(a)
    /\ \E pi \in Permutations(1..Len(a)) :
        /\ \A i \in 1..Len(a) : b[i] = a[pi[i]]
        /\ \A i, j \in 1..Len(a) :
            (i < j /\ a[pi[i]][col] = a[pi[j]][col]) => pi[i] < pi[j]
    /\ \A i, j \in 1..Len(b) :
        (i < j /\ b[i][col].t # "nan" /\ b[j][col].t # "nan") =>
            IF asc THEN ~keyLess(b[j][col], b[i][col])
            ELSE ~keyLess(b[i][col], b[j][col])

\* C5: a sort that succeeds leaves a permutation of the rows, ordered by the
\* named column in the named direction, rows of equal keys in their former
\* relative order
C5_SortStable ==
    [][(Did(SortInputs) /\ out' = <<"Sorted.">>) =>
            stableSorted(current, current', sortCol(argOf(line')),
                         sortAsc(argOf(line')))]_vars

\* a descending sort by age of the three rows in reverse file order: the
\* two rows of age 30 come first, in the order they had
C5_Witness ==
    /\ running
    /\ line = "sort age,desc"
    /\ out = <<"Sorted.">>
    /\ original = <<FileRow(3), FileRow(2), FileRow(1)>>
    /\ current = <<FileRow(3), FileRow(1), FileRow(2)>>

\* the least q with q * d >= n
ceilDiv(n, d) == CHOOSE q \in 0..n : q * d >= n /\ (q = 0 \/ (q - 1) * d < n)

\* C6: the number of pages is max(1, ceil(rows / size)), and the view of the
\* current page has at most size rows, which are the rows of the bound
\* table from position (page - 1) * size on, in order
C6_PagesAndView ==
    /\ pages(pager) = Max(1, ceilDiv(Len(pager.df), pager.size))
    /\ Len(view(pager)) <= pager.size
    /\ (pager.i - 1) * pager.size + Len(view(pager)) <= Len(pager.df)
    /\ \A j \in 1..Len(view(pager)) :
        view(pager)[j] = pager.df[(pager.i - 1) * pager.size + j]

\* the short last page of three rows in pages of two was shown
C6_Witness ==
    /\ running
    /\ line = "show"
    /\ Len(pager.df) = 3
    /\ pager.size = 2
    /\ pager.i = 2
    /\ view(pager) = <<pager.df[3]>>
    /\ out = <<"<1 rows>", "Page 2/2 | Rows: 3">>

\* C7: next on the last page keeps the page and prints "No more pages.",
\* otherwise it adds 1; prev on page 1 keeps the page and prints "Already at
\* first page.", otherwise it subtracts 1; neither changes the tables or
\* the page size
C7_NextPrev ==
    [][/\ Did(NextInputs) =>
            /\ IF pager.i = pages(pager)
               THEN pager'.i = pager.i /\ out'[1] = "No more pages."
               ELSE pager'.i = pager.i + 1 /\ out'[1] # "No more pages."
            /\ pager'.df = pager.df /\ pager'.size = pager.size
            /\ UNCHANGED <<original, current>>
       /\ Did(PrevInputs) =>
            /\ IF pager.i = 1
               THEN pager'.i = pager.i /\ out'[1] = "Already at first page."
               ELSE pager'.i = pager.i - 1 /\ out'[1] # "Already at first page."
            /\ pager'.df = pager.df /\ pager'.size = pager.size
            /\ UNCHANGED <<original, current>>]_vars

\* next was typed on the last of several pages
C7_Witness ==
    /\ running
    /\ line = "next"
    /\ pager.i > 1
    /\ pager.i = pages(pager)
    /\ out = <<"No more pages.", pageOf(pager)>>

\* the filters that compare the numeric column Age with the text abc
NumericVsText == {"filter Age>abc", "filter Age<abc", "filter Age!=abc"}

\* C8: a condition that compares a numeric column with non-numeric text,
\* whatever its operator, leaves no row and raises no error
C8_NumericVsTextNoRows ==
    (running /\ line \in NumericVsText) => (current = <<>> /\ ~IsErr(out))

EmptyFilters == {c \in FilterInputs : c.arg # "" /\ tokensOf(c.arg) = <<>>}

\* C10: a filter expression without any non-empty token fails with an error
\* and neither replaces the table nor rebinds the pager
C10_EmptyFilterFails ==
    [][Did(EmptyFilters) => (IsErr(out') /\ UNCHANGED <<current, pager>>)]_vars

\* the parsed conditions of a filter expression
condsOf(expr) == [i \in 1..Len(tokensOf(expr)) |-> parse_cond(tokensOf(expr)[i])]

allParsed(conds) == \A i \in 1..Len(conds) : conds[i].ok

\* the same conditions, the column names differing in the case of letters only
caseVariants(a, b) ==
    /\ Len(a) = Len(b)
    /\ Len(a) > 0
    /\ allParsed(a)
    /\ allParsed(b)
    /\ \A i \in 1..Len(a) :
        /\ lower(a[i].v.col) = lower(b[i].v.col)
        /\ a[i].v.op = b[i].v.op
        /\ a[i].v.val = b[i].v.val

nameUnknown(conds) ==
    \E i \in 1..Len(conds) : lower(conds[i].v.col) \notin {"age", "name"}

\* the pairs of distinct filter inputs whose conditions are the same but
\* for the case of the letters of the column names
VariantPairs ==
    {p \in {<<a, b>> : a \in FilterInputs, b \in FilterInputs} :
        p[1] # p[2] /\ caseVariants(condsOf(p[1].arg), condsOf(p[2].arg))}

\* the filter lines, all of whose conditions parse, with a name that is no
\* column's name in any case
UnknownNameFilters ==
    {c.line : c \in {f \in FilterInputs :
        allParsed(condsOf(f.arg)) /\ nameUnknown(condsOf(f.arg))}}

\* C11: a filter gives, on the table it is applied to, the same rows as every
\* filter that differs from it in the case of the letters of column names
\* only; a filter with a name that is no column's name in any case fails with
\* the unknown-column error and changes nothing, and no other filter fails
\* with that error
C11_ColumnCaseInsensitive ==
    [][Did(FilterInputs) =>
        /\ \A p \in VariantPairs :
            p[1].line = line' =>
                /\ run_filter(current, p[2].arg).ok
                /\ current' = run_filter(current, p[2].arg).v
        /\ IF line' \in UnknownNameFilters
           THEN out' = Err("Unknown column") /\ UNCHANGED <<current, pager>>
           ELSE out' # Err("Unknown column")]_vars

\* AGE>25 , name~AL left the one row that age>25 , Name~AL leaves
C11_Witness ==
    /\ running
    /\ line = "filter AGE>25 , name~AL"
    /\ Len(original) = 3
    /\ current = <<Row(30, StrV("Ali"))>>
    /\ run_filter(original, "Age>25 , Name~AL") = Ok(current)
    /\ out = <<"Filtered rows: 1 (Page 1/1)">>

clamp(k, lo, hi) == IF k < lo THEN lo ELSE IF k > hi THEN hi ELSE k

\* C12: page k, for a string of digits k, sets the page to k clamped into
\* 1..pages and prints it; the tables, the bound table and the page size
\* stay as they were
C12_PageClamps ==
    [][(Did(PageInputs) /\ isdigit(argOf(line'))) =>
        /\ pager'.i = clamp(intValue(argOf(line')), 1, pages(pager))
        /\ pager'.df = pager.df
        /\ pager'.size = pager.size
        /\ UNCHANGED <<original, current>>
        /\ out' = <<"Page " \o intStr(pager'.i) \o "/" \o intStr(pages(pager))>>]_vars

\* page 5 on three rows in pages of two ended on page 2 of 2
C12_Witness ==
    /\ running
    /\ line = "page 5"
    /\ Len(current) = 3
    /\ pager.size = 2
    /\ pager.i = 2
    /\ out = <<"Page 2/2">>

\* C13: a command that fails prints its error and leaves the loop running;
\* the loop stops only on exit or quit, or when input ends or is interrupted
\* at the prompt, it then prints the farewell and leaves the session as it
\* was, and once it has stopped no command is processed
C13_LoopSurvivesErrors ==
    [][/\ (running /\ IsErr(out')) => running'
       /\ (running /\ ~running') =>
            /\ out' = <<"Bye">>
            /\ line' \in linesOf(ExitInputs) \/ line' = line
            /\ UNCHANGED <<original, current, pager>>
       /\ ~running => UNCHANGED vars]_vars

\* a sort by a column that does not exist failed, and the loop is at the
\* prompt again
C13_Witness ==
    /\ running
    /\ line = "sort Nope"
    /\ IsErr(out)
    /\ pager.df = current

\* the inputs of the commands that only read the session
ReadOnlyInputs ==
    HelpInputs \cup ShowInputs \cup ColsInputs \cup DtypesInputs
        \cup ExportInputs \cup ExportPageInputs

\* C14: help, show, cols, dtypes, export, export_page and an unknown command
\* leave the original table, the current table and the pager (its table,
\* its page size and its page) as they were
C14_ReadOnlyFrame ==
    [][Did(ReadOnlyInputs \cup UnknownInputs) =>
            UNCHANGED <<original, current, pager>>]_vars

\* the second page of a filtered table was exported
C14_Witness ==
    /\ running
    /\ line = "export_page p.json"
    /\ out = <<"Saved current page: p.json">>
    /\ current # original
    /\ pager.df = current
    /\ pager.i = 2

\* parse_cond was given the text tok and returned r
Parsed(tok, r) == line = tok /\ out = <<Call("parse_cond", r)>>

\* the seven operators
Operators == {"==", "!=", ">=", "<=", ">", "<", "~"}

\* C15: a token C op V, C and V free of operator characters, C not blank and
\* V not blank unless op is ~, parses to the trimmed C, op itself (a
\* two-character operator is not cut to its first character) and the
\* coerced trimmed V
C15_ParsesOperators ==
    \A C \in Lefts, op \in Operators, V \in Rights :
        (/\ line = C \o op \o V
         /\ out # <<>>
         /\ out[1].f = "parse_cond"
         /\ strip(C) # ""
         /\ (op = "~" \/ strip(V) # "")) =>
            out[1].r = Ok([col |-> strip(C), op |-> op, val |-> to_val(strip(V))])

\* " Age >= 30 " was parsed as Age, >=, the integer 30
C15_Witness ==
    Parsed(" Age >= 30 ", Ok([col |-> "Age", op |-> ">=", val |-> IntV(30)]))

hasOperator(tok) == \E op \in Operators : contains(tok, op)

\* C16: a token without an operator fails as a bad condition; a token
\* C op V fails for a missing column when C is blank, else for a missing
\* value when V is blank and op is not ~, and else succeeds; no token fails
\* in another way
C16_ParseErrors ==
    (out # <<>> /\ out[1].f = "parse_cond") =>
        /\ ~hasOperator(line) => out[1].r = Raise("Bad condition")
        /\ hasOperator(line) =>
            \/ out[1].r.ok
            \/ out[1].r \in {Raise("Missing column"), Raise("Missing value")}
        /\ \A C \in Lefts, op \in Operators, V \in Rights :
            line = C \o op \o V =>
                IF strip(C) = "" THEN out[1].r = Raise("Missing column")
                ELSE IF op # "~" /\ strip(V) = ""
                     THEN out[1].r = Raise("Missing value")
                     ELSE out[1].r.ok

\* Age~ parsed, to a search for the empty text
C16_Witness ==
    Parsed("Age~", Ok([col |-> "Age", op |-> "~", val |-> StrV("")]))

\* t is wrapped in a pair of the same quote
wrapped(t) ==
    \E q \in {"'", "\""} :
        Len(t) >= 2 /\ SubSeq(t, 1, 1) = q /\ SubSeq(t, Len(t), Len(t)) = q

\* the rules of the coercion, in their order, on the trimmed text t
coerced(t) ==
    IF wrapped(t) THEN StrV(SubSeq(t, 2, Len(t) - 1))
    ELSE IF lower(t) \in {"none", "null"} THEN NoneV
    ELSE IF lower(t) \in {"true", "false"} THEN BoolV(lower(t) = "true")
    ELSE IF \E i \in 1..Len(t) : SubSeq(t, i, i) = "."
         THEN (IF isFloat(t) THEN floatValue(t) ELSE StrV(t))
         ELSE (IF isInt(t) THEN IntV(intValue(t)) ELSE StrV(t))

\* C20: to_val returns, for every text, what the rules give in their order:
\* the inside of quotes as it is, else null, else a boolean, else a float
\* (with a point) or an integer (without), else the trimmed text itself
C20_CoercionRules ==
    (out # <<>> /\ out[1].f = "to_val") =>
        /\ out[1].r = coerced(strip(line))
        /\ out[1].r.t \in {"str", "none", "bool", "int", "float"}
        /\ wrapped(strip(line)) => out[1].r.t = "str"

\* 'None' in quotes and spaces came back as the text None
C20_Witness ==
    /\ line = " 'None' "
    /\ out = <<Call("to_val", StrV("None"))>>

\* C17: for a numeric value, a cell that is null or is no number matches
\* under none of the six comparison operators, != included, and nothing is
\* raised: Name!=5 leaves no row of a table whose names are all text or null
C17_UnparsedNeverMatches ==
    (running /\ line = "filter Name!=5") => (~IsErr(out) /\ current = <<>>)

\* the filters of the column Name by the contains operator
ContainsInputs ==
    {c \in FilterInputs : Len(c.arg) >= 5 /\ SubSeq(c.arg, 1, 5) = "Name~"}

\* the rows of df whose name is not null and has the text txt in it, the
\* case of letters set aside
containing(df, txt) ==
    LET has(row) == row.Name.t # "nan" /\ contains(lower(row.Name.s), lower(txt))
    IN  SelectSeq(df, has)

\* C18: Name~text leaves exactly the rows whose name is not null and
\* contains the text, whatever the case of letters
C18_ContainsText ==
    [][\A c \in ContainsInputs :
        (line' = c.line /\ running') =>
            current' = containing(current, SubSeq(c.arg, 6, Len(c.arg)))]_vars

\* C19: at every prompt the table bound to the pager is the current table,
\* so the number of pages is that of the current table; a filter or a sort
\* that succeeds puts the page back to 1 and keeps the page size
C19_PagerBound ==
    /\ pager.df = current
    /\ [][/\ pager'.df = current'
          /\ pages(pager') = Max(1, ceilDiv(Len(current'), pager'.size))
          /\ (Did(FilterInputs \cup SortInputs) /\ argOf(line') # "" /\ ~IsErr(out')) =>
                (pager'.i = 1 /\ pager'.size = pager.size)]_vars

\* a filter left two of three rows, shown one to a page as before it
C19_Witness ==
    /\ running
    /\ line = "filter Age>=30"
    /\ Len(original) = 3
    /\ Len(current) = 2
    /\ pager.df = current
    /\ pager.size = 1
    /\ pager.i = 1
    /\ out = <<"Filtered rows: 2 (Page 1/2)">>

\* C21: filtering a table and then sorting it gives the table that sorting
\* it and then filtering gives, rows and order; filtering by F and then by G
\* gives the table that the one filter "F,G" gives
C21_CommuteAndCompose ==
    out # <<>> =>
        /\ out[1].f = "filter;sort" =>
            /\ run_sort(original, out[1].b).ok
            /\ run_filter(run_sort(original, out[1].b).v, out[1].a) = Ok(current)
        /\ out[1].f = "filter;filter" =>
            run_filter(original, out[1].a \o "," \o out[1].b) = Ok(current)

\* of bob (30), a missing name (20) and Ali (30), those of age 30 or more,
\* sorted by age downwards, are bob and Ali in that order
C21_Witness ==
    /\ original = <<FileRow(1), FileRow(2), FileRow(3)>>
    /\ out = <<Calls("filter;sort", "Age>=30", "age,desc")>>
    /\ current = <<FileRow(1), FileRow(3)>>
    /\ run_sort(original, "age,desc") = Ok(<<FileRow(1), FileRow(3), FileRow(2)>>)

=============================================================================
